---------------------------- MODULE Spec2Model ----------------------------
(***************************************************************************)
(* Model of the names-webapp storage backends (rest/db/sqlite_backend.py,  *)
(* rest/db/postgres_backend.py) and of the ingestion pipeline              *)
(* (data/data_ingestion.py).                                               *)
(*                                                                         *)
(* Text is modelled as a sequence of one-character strings, so that        *)
(* lower-casing, LIKE matching, int() and the year regex are computed      *)
(* character by character.  A table is a bag (multiset) of rows: SQL gives *)
(* a table no order, and wherever a statement leaves the order of its      *)
(* result open (no ORDER BY, or ties under ORDER BY) the query operator    *)
(* returns the SET of results the engine may produce.                      *)
(***************************************************************************)
EXTENDS Integers, Sequences, FiniteSets, Bags, TLC

VARIABLES
    backend,             \* config.DB_BACKEND as resolved by create_backend()
    conn,                \* self._conn is not None
    schema,              \* the two tables exist in the store
    ssa_names,           \* bag of rows [name, gender, count, year]
    ssa_names_by_state,  \* bag of rows [state, name, gender, count, year]
    indexes,             \* the indexes of the store: <<table, columns>>
    pending,             \* rows the session inserted and has not committed
    aborted,             \* the session's transaction is in the failed state
    open_sessions,       \* sessions this instance opened and nobody closed
    last,                \* the last call on the engine and what it raised
    pc,                  \* the step NamesDataPipeline.run() is at
    csv_files,           \* the members the running load loop has still to do
    zips                 \* the members of names.zip and namesbystate.zip

vars ==
    <<backend, conn, schema, ssa_names, ssa_names_by_state, indexes, pending,
      aborted, open_sessions, last, pc, csv_files, zips>>

\* The store, the session and the pipeline, apart.
store_vars == <<schema, ssa_names, ssa_names_by_state, indexes>>
session_vars == <<conn, pending, aborted, open_sessions>>
run_vars == <<pc, csv_files, zips>>

-----------------------------------------------------------------------------
(* Bounds *)

\* Most rows a table holds in the model.
MaxRows == 3

-----------------------------------------------------------------------------
(* Optional values: Python's None and a present value *)

None == <<>>
Some(v) == <<v>>

-----------------------------------------------------------------------------
(* Text *)

\* LOWER() on the ASCII letters; every other character is left as it is.
LowerMap ==
    [A |-> "a", B |-> "b", C |-> "c", D |-> "d", E |-> "e", F |-> "f",
     G |-> "g", H |-> "h", I |-> "i", J |-> "j", K |-> "k", L |-> "l",
     M |-> "m", N |-> "n", O |-> "o", P |-> "p", Q |-> "q", R |-> "r",
     S |-> "s", T |-> "t", U |-> "u", V |-> "v", W |-> "w", X |-> "x",
     Y |-> "y", Z |-> "z"]

UpperLetters == DOMAIN LowerMap

LowerChar(c) == IF c \in UpperLetters THEN LowerMap[c] ELSE c

\* LOWER(text)
Lower(t) == [i \in 1..Len(t) |-> LowerChar(t[i])]

DigitMap ==
    ("0" :> 0) @@ ("1" :> 1) @@ ("2" :> 2) @@ ("3" :> 3) @@ ("4" :> 4) @@
    ("5" :> 5) @@ ("6" :> 6) @@ ("7" :> 7) @@ ("8" :> 8) @@ ("9" :> 9)

Digits == DOMAIN DigitMap

IsDigit(c) == c \in Digits

DigitValue(c) == DigitMap[c]

\* str.endswith(suffix)
EndsWith(t, suffix) ==
    /\ Len(t) >= Len(suffix)
    /\ SubSeq(t, Len(t) - Len(suffix) + 1, Len(t)) = suffix

\* str.startswith(prefix)
StartsWith(t, prefix) ==
    /\ Len(t) >= Len(prefix)
    /\ SubSeq(t, 1, Len(prefix)) = prefix

RECURSIVE DigitsValue(_)
DigitsValue(t) ==
    IF t = <<>> THEN 0
    ELSE 10 * DigitsValue(SubSeq(t, 1, Len(t) - 1)) + DigitValue(t[Len(t)])

AllDigits(t) == Len(t) > 0 /\ \A i \in 1..Len(t) : IsDigit(t[i])

\* Python int(text): an optional sign and decimal digits; anything else
\* raises ValueError, modelled as None.
ParseInt(t) ==
    IF AllDigits(t) THEN Some(DigitsValue(t))
    ELSE IF Len(t) > 1 /\ t[1] = "-" /\ AllDigits(Tail(t))
         THEN Some(0 - DigitsValue(Tail(t)))
    ELSE IF Len(t) > 1 /\ t[1] = "+" /\ AllDigits(Tail(t))
         THEN Some(DigitsValue(Tail(t)))
    ELSE None

\* re.search(r"(\d{4})", filename): the leftmost run of four digits.
YearMatches(filename) ==
    {i \in 1..(Len(filename) - 3) : \A k \in 0..3 : IsDigit(filename[i + k])}

Min(S) == CHOOSE x \in S : \A y \in S : x <= y
Max(S) == CHOOSE x \in S : \A y \in S : x >= y

\* Mutant of _extract_year_from_filename: a name without a year gets the
\* year 0.
_extract_year_or_zero(filename) ==
    IF YearMatches(filename) = {} THEN Some(0)
    ELSE LET i == Min(YearMatches(filename))
         IN  Some(DigitsValue(SubSeq(filename, i, i + 3)))

_extract_year_from_filename(filename) ==
    IF YearMatches(filename) = {} THEN None
    ELSE LET i == Min(YearMatches(filename))
         IN  Some(DigitsValue(SubSeq(filename, i, i + 3)))

-----------------------------------------------------------------------------
(* Input universe: the texts that occur in archive members *)

Mary == <<"M","a","r","y">>
MARY == <<"M","A","R","Y">>
John == <<"J","o","h","n">>

GenderF == <<"F">>
GenderM == <<"M">>

StateCA == <<"C","A">>
StateNY == <<"N","Y">>

Text400 == <<"4","0","0">>
Text600 == <<"6","0","0">>
Text1949 == <<"1","9","4","9">>
Text1950 == <<"1","9","5","0">>
Text900 == <<"9","0","0">>
Text1000 == <<"1","0","0","0">>
TextAbc == <<"a","b","c">>

Yob1949Txt == <<"y","o","b">> \o Text1949 \o <<".","t","x","t">>
Yob1950Txt == <<"y","o","b">> \o Text1950 \o <<".","t","x","t">>
ReadmeTxt == <<"r","e","a","d","m","e",".","t","x","t">>
StatesTxt == <<"C","A",".","T","X","T">>
ReadmePdf == <<"R","e","a","d","M","e",".","p","d","f">>

NameTexts == {Mary, MARY, John}
GenderX == <<"X">>
TextMinus400 == <<"-">> \o Text400

GenderTexts == {GenderF, GenderM}
CountTexts == {Text400, Text600}
YearTexts == {Text1949, Text1950}
StateTexts == {StateCA, StateNY}

\* csv rows of a national member: name,gender,count; and three rows of
\* another shape (two columns, four columns, a count that is no integer).
NationalCsvRows ==
    {<<n, g, c>> : n \in NameTexts, g \in GenderTexts, c \in CountTexts}
    \cup {<<Mary, GenderF>>, <<Mary, GenderF, Text400, Text600>>,
          <<Mary, GenderF, TextAbc>>}

\* One-row members reach every table content; the two-row member is the
\* batch of a file with several lines.  Two members carry no year or are
\* no data file.
NationalFiles ==
    [name : {Yob1949Txt, Yob1950Txt},
     rows : {<<r>> : r \in NationalCsvRows}
            \cup {<<<<Mary, GenderF, Text1000>>, <<John, GenderM, Text900>>>>}]
    \cup [name : {ReadmeTxt, ReadmePdf}, rows : {<<<<Mary, GenderF, Text400>>>>}]

\* csv rows of a state member: state,gender,year,name,count; and rows of
\* another shape.
StateCsvRows ==
    {<<s, g, y, n, c>> : s \in StateTexts, g \in {GenderF}, y \in YearTexts,
                         n \in {Mary, MARY}, c \in CountTexts}
    \cup {<<StateCA, GenderM, Text1950, Mary, Text400>>,
          <<StateCA, GenderF, Text1950, John, Text400>>,
          <<StateCA, GenderF, Text1950, Mary>>,
          <<StateCA, GenderF, Text1950, Mary, TextAbc>>}

StateFiles ==
    [name : {StatesTxt},
     rows : {<<r>> : r \in StateCsvRows}
            \cup {<<<<StateCA, GenderF, Text1950, Mary, Text400>>,
                    <<StateNY, GenderF, Text1950, Mary, Text600>>>>}]
    \cup [name : {ReadmePdf},
          rows : {<<<<StateCA, GenderF, Text1950, Mary, Text400>>>>}]

Backends == {"sqlite", "postgres"}

\* The DDL script handed to init_schema: CREATE TABLE IF NOT EXISTS, or
\* DROP TABLE followed by CREATE TABLE.
Scripts == {"create_if_not_exists", "drop_and_create"}

-----------------------------------------------------------------------------
(* Bags *)

RECURSIVE SeqToBag(_)
SeqToBag(s) ==
    IF s = <<>> THEN EmptyBag
    ELSE SetToBag({Head(s)}) (+) SeqToBag(Tail(s))

\* The rows D of bag B, with their multiplicity (WHERE).
SubBagWhere(B, D) == [r \in D |-> B[r]]

\* SUM(count) over the rows of a bag.
RECURSIVE SumCount(_)
SumCount(B) ==
    IF DOMAIN B = {} THEN 0
    ELSE LET r == CHOOSE x \in DOMAIN B : TRUE
         IN  r.count * B[r] + SumCount([x \in DOMAIN B \ {r} |-> B[x]])

-----------------------------------------------------------------------------
(* Ingestion: parsing one archive member *)

\* extract_and_load's member filter.
IsNationalDataFile(filename) ==
    \/ EndsWith(filename, <<".","t","x","t">>)
    \/ EndsWith(filename, <<".","c","s","v">>)

\* extract_and_load_states's member filter.
IsStateDataFile(filename) ==
    \/ EndsWith(Lower(filename), <<".","t","x","t">>)
    \/ EndsWith(Lower(filename), <<".","c","s","v">>)

\* The comprehension "for name, gender, count, *_ in reader": a row with
\* fewer than three columns cannot be unpacked, and int(count) may raise;
\* either aborts the whole member (None).  Columns after the third are
\* taken by *_ .
NationalRowRaises(row) ==
    \/ Len(row) < 3
    \/ ParseInt(row[3]) = None

NationalRecord(row, year) ==
    [name |-> row[1], gender |-> row[2], count |-> ParseInt(row[3])[1],
     year |-> year]

NationalRecords(rows, year) ==
    IF \E i \in 1..Len(rows) : NationalRowRaises(rows[i]) THEN None
    ELSE Some([i \in 1..Len(rows) |-> NationalRecord(rows[i], year)])

\* The loop "for row in reader: if len(row) == 5": other rows are passed
\* over; int(count) and int(year) may raise.
StateRowKept(row) == Len(row) = 5

StateRowRaises(row) ==
    /\ StateRowKept(row)
    /\ (ParseInt(row[5]) = None \/ ParseInt(row[3]) = None)

\* Mutant of StateRecord: the line read name first, as a national line is.
StateRecordNameFirst(row) ==
    [state |-> row[4], name |-> row[1], gender |-> row[2],
     count |-> ParseInt(row[5])[1], year |-> ParseInt(row[3])[1]]

\* records.append((state, name, gender, int(count), int(year))) for
\* state, gender, year, name, count = row.
StateRecord(row) ==
    [state |-> row[1], name |-> row[4], gender |-> row[2],
     count |-> ParseInt(row[5])[1], year |-> ParseInt(row[3])[1]]

StateRecords(rows) ==
    IF \E i \in 1..Len(rows) : StateRowRaises(rows[i]) THEN None
    ELSE Some(LET kept == SelectSeq(rows, StateRowKept)
              IN  [i \in 1..Len(kept) |-> StateRecord(kept[i])])

-----------------------------------------------------------------------------
(* SQL building blocks *)

\* Integer division of the two engines: the quotient is truncated toward 0.
TruncDiv(a, b) == IF a >= 0 THEN a \div b ELSE 0 - ((0 - a) \div b)

\* The elements of a finite set of integers, ascending (ORDER BY x).
RECURSIVE Ascending(_)
Ascending(S) ==
    IF S = {} THEN <<>>
    ELSE <<Min(S)>> \o Ascending(S \ {Min(S)})

\* Every result "ORDER BY key DESC" may deliver for the rows of bag B:
\* the rows in non-increasing key order, rows of equal key in any order.
RECURSIVE OrderByDesc(_, _)
OrderByDesc(B, key) ==
    IF DOMAIN B = {} THEN {<<>>}
    ELSE LET top == Max({r[key] : r \in DOMAIN B})
         IN  UNION {{<<r>> \o rest :
                        rest \in OrderByDesc(B (-) SetToBag({r}), key)} :
                    r \in {x \in DOMAIN B : x[key] = top}}

\* LIMIT n on a result list; SQLite reads a negative n as no limit.
Limit(rows, n) ==
    IF n < 0 THEN rows ELSE SubSeq(rows, 1, Min({n, Len(rows)}))

\* text LIKE pattern: % stands for any run of characters, _ for any one
\* character; with escape (PostgreSQL's default) a backslash makes the
\* character after it literal.
RECURSIVE LikeMatch(_, _, _)
LikeMatch(t, pattern, escape) ==
    IF pattern = <<>> THEN t = <<>>
    ELSE IF escape /\ pattern[1] = "\\"
    THEN /\ Len(pattern) >= 2
         /\ t # <<>>
         /\ t[1] = pattern[2]
         /\ LikeMatch(Tail(t), Tail(Tail(pattern)), escape)
    ELSE IF pattern[1] = "%"
    THEN \/ LikeMatch(t, Tail(pattern), escape)
         \/ (t # <<>> /\ LikeMatch(Tail(t), pattern, escape))
    ELSE IF pattern[1] = "_"
    THEN t # <<>> /\ LikeMatch(Tail(t), Tail(pattern), escape)
    ELSE /\ t # <<>>
         /\ t[1] = pattern[1]
         /\ LikeMatch(Tail(t), Tail(pattern), escape)

\* The WHERE clause on name: SQLite "name = ?" (BINARY collation),
\* PostgreSQL "LOWER(name) = LOWER(%s)".
NameEquals(engine, stored, name) ==
    IF engine = "sqlite" THEN stored = name
    ELSE Lower(stored) = Lower(name)

\* The WHERE clause of search_names: SQLite "name LIKE ? || '%'" (LIKE
\* folds ASCII case and has no escape character), PostgreSQL
\* "LOWER(name) LIKE LOWER(%s || '%')".
NameLike(engine, stored, prefix) ==
    IF engine = "sqlite"
    THEN LikeMatch(Lower(stored), Lower(prefix \o <<"%">>), FALSE)
    ELSE LikeMatch(Lower(stored), Lower(prefix \o <<"%">>), TRUE)

\* Python truth of an optional text argument ("if gender:").
Truthy(arg) == arg # None /\ arg[1] # <<>>

-----------------------------------------------------------------------------
(* Queries.  T is the content of ssa_names, S of ssa_names_by_state. *)

\* The rows "WHERE name = ?" selects, and with a gender "AND gender = ?".
NameRows(engine, T, name, gender) ==
    SubBagWhere(T, {r \in DOMAIN T :
                       /\ NameEquals(engine, r.name, name)
                       /\ (Truthy(gender) => r.gender = gender[1])})

\* get_name_records: no ORDER BY, so the rows as a bag.
get_name_records(engine, T, name) == NameRows(engine, T, name, None)

\* MAX(count) over the rows of a bag (0 for no row).
MaxCount(B) == IF DOMAIN B = {} THEN 0 ELSE Max({r.count : r \in DOMAIN B})

\* Mutant of get_name_trends: MAX(count) in the place of SUM(count).
get_name_trends_max(engine, T, name, gender) ==
    LET rows == NameRows(engine, T, name, gender)
        years == Ascending({r.year : r \in DOMAIN rows})
        InYear(y) == SubBagWhere(rows,
                        {r \in DOMAIN rows : r.year = y})
    IN  [i \in 1..Len(years) |->
            [year |-> years[i], count |-> MaxCount(InYear(years[i]))]]

\* get_name_trends: SUM(count) GROUP BY year ORDER BY year.
get_name_trends(engine, T, name, gender) ==
    LET rows == NameRows(engine, T, name, gender)
        years == Ascending({r.year : r \in DOMAIN rows})
        InYear(y) == SubBagWhere(rows,
                        {r \in DOMAIN rows : r.year = y})
    IN  [i \in 1..Len(years) |->
            [year |-> years[i], count |-> SumCount(InYear(years[i]))]]

\* get_gender_breakdown: SUM(count) GROUP BY gender, in no stated order.
get_gender_breakdown(engine, T, name) ==
    LET rows == NameRows(engine, T, name, None)
        OfGender(g) == SubBagWhere(rows,
                        {r \in DOMAIN rows : r.gender = g})
    IN  {[gender |-> g, total_count |-> SumCount(OfGender(g))] :
            g \in {r.gender : r \in DOMAIN rows}}

\* Mutant of NameStatsOf: the peak year is the year whose counts add up to
\* the most, not the year of the row with the largest count.
NameStatsOfSummedPeak(rows, name, breakdown) ==
    LET peak_count == Max({r.count : r \in DOMAIN rows})
        InYear(y) == SubBagWhere(rows,
                        {r \in DOMAIN rows : r.year = y})
        years == {r.year : r \in DOMAIN rows}
        best == Max({SumCount(InYear(y)) : y \in years})
    IN  IF DOMAIN rows = {} THEN {None}
        ELSE {Some([name |-> name,
                    total_count |-> SumCount(rows),
                    peak_year |-> y,
                    peak_count |-> peak_count,
                    first_year |-> Min(years),
                    last_year |-> Max(years),
                    gender_breakdown |-> breakdown]) :
                 y \in {z \in years : SumCount(InYear(z)) = best}}

\* The body of get_name_stats on the rows its WHERE clause selects: None
\* when SUM(count) is NULL (no row); the peak year is the year of the
\* first row under ORDER BY count DESC LIMIT 1.
NameStatsOf(rows, name, breakdown) ==
    LET peak_count == Max({r.count : r \in DOMAIN rows})
    IN  IF DOMAIN rows = {} THEN {None}
        ELSE {Some([name |-> name,
                    total_count |-> SumCount(rows),
                    peak_year |-> p.year,
                    peak_count |-> peak_count,
                    first_year |-> Min({r.year : r \in DOMAIN rows}),
                    last_year |-> Max({r.year : r \in DOMAIN rows}),
                    gender_breakdown |-> breakdown]) :
                 p \in {r \in DOMAIN rows : r.count = peak_count}}

\* Mutant of get_name_stats: the WHERE clause compares the name as it is,
\* without LOWER, in both engines.
get_name_stats_exact(engine, T, name) ==
    NameStatsOf(NameRows("sqlite", T, name, None), name,
                get_gender_breakdown(engine, T, name))

\* get_name_stats
get_name_stats(engine, T, name) ==
    NameStatsOf(NameRows(engine, T, name, None), name,
                get_gender_breakdown(engine, T, name))

\* The rows of a ranking: "WHERE year = ?" and, with a gender,
\* "AND gender = ?".
PartitionRows(T, year, gender) ==
    SubBagWhere(T, {r \in DOMAIN T :
                       /\ r.year = year
                       /\ (Truthy(gender) => r.gender = gender[1])})

\* Mutant of Ranked: DENSE_RANK() in the place of ROW_NUMBER(): rows of
\* equal count share a rank.
RankedDense(rows) ==
    [i \in 1..Len(rows) |->
        [name |-> rows[i].name, gender |-> rows[i].gender,
         count |-> rows[i].count,
         rank |-> Cardinality({rows[k].count : k \in 1..i})]]

\* ROW_NUMBER() OVER (ORDER BY count DESC) on rows already in that order.
Ranked(rows) ==
    [i \in 1..Len(rows) |->
        [name |-> rows[i].name, gender |-> rows[i].gender,
         count |-> rows[i].count, rank |-> i]]

\* Mutant of get_top_names: the window numbers the rows of each gender on
\* their own (PARTITION BY gender), and the list merges the two rankings.
get_top_names_per_gender(engine, T, year, gender, limit) ==
    {Limit([i \in 1..Len(rows) |->
               [name |-> rows[i].name, gender |-> rows[i].gender,
                count |-> rows[i].count,
                rank |-> Cardinality({k \in 1..i :
                                         rows[k].gender = rows[i].gender})]],
           limit) :
        rows \in OrderByDesc(PartitionRows(T, year, gender), "count")}

\* get_top_names: one sort by count DESC serves the window and the
\* statement's ORDER BY; LIMIT cuts the list.
get_top_names(engine, T, year, gender, limit) ==
    {Limit(Ranked(rows), limit) :
        rows \in OrderByDesc(PartitionRows(T, year, gender), "count")}

\* Mutant of get_name_rank: the subquery leaves out "AND gender = ?".
get_name_rank_any_gender(engine, T, name, year, gender) ==
    LET ranks == UNION {{Some(i) : i \in {k \in 1..Len(rows) :
                                    NameEquals(engine, rows[k].name, name)}} :
                        rows \in OrderByDesc(
                            PartitionRows(T, year, None), "count")}
    IN  IF ranks = {} THEN {None} ELSE ranks

\* get_name_rank: the ranked subquery filtered by name, fetchone().
get_name_rank(engine, T, name, year, gender) ==
    LET ranks == UNION {{Some(i) : i \in {k \in 1..Len(rows) :
                                    NameEquals(engine, rows[k].name, name)}} :
                        rows \in OrderByDesc(
                            PartitionRows(T, year, Some(gender)), "count")}
    IN  IF ranks = {} THEN {None} ELSE ranks

\* Mutant of Decade: the year rounded to the nearest 10.
DecadeRounded(year) == TruncDiv(year + 5, 10) * 10

\* (year / 10) * 10 in integer arithmetic.
Decade(year) == TruncDiv(year, 10) * 10

\* get_decade_trends: SUM(count) GROUP BY (year / 10) * 10 ORDER BY decade.
get_decade_trends(engine, T, name, gender) ==
    LET rows == NameRows(engine, T, name, gender)
        decades == Ascending({Decade(r.year) : r \in DOMAIN rows})
        InDecade(d) == SubBagWhere(rows,
                        {r \in DOMAIN rows : Decade(r.year) = d})
    IN  [i \in 1..Len(decades) |->
            [decade |-> decades[i], count |-> SumCount(InDecade(decades[i]))]]

\* search_names: SUM(count) GROUP BY name ORDER BY total_count DESC LIMIT.
search_names(engine, T, prefix, limit) ==
    LET rows == SubBagWhere(T, {r \in DOMAIN T :
                                   NameLike(engine, r.name, prefix)})
        OfName(n) == SubBagWhere(rows,
                        {r \in DOMAIN rows : r.name = n})
        groups == {[name |-> n, total_count |-> SumCount(OfName(n))] :
                      n \in {r.name : r \in DOMAIN rows}}
    IN  {Limit(g, limit) : g \in OrderByDesc(SetToBag(groups), "total_count")}

\* The rows "WHERE name = ?" selects in ssa_names_by_state, and with a
\* state "AND state = ?".
StateNameRows(engine, S, name, state) ==
    SubBagWhere(S, {r \in DOMAIN S :
                       /\ NameEquals(engine, r.name, name)
                       /\ (Truthy(state) => r.state = state[1])})

\* get_name_by_state: no ORDER BY, so the rows as a bag.
get_name_by_state(engine, S, name, state) ==
    StateNameRows(engine, S, name, state)

\* get_state_distribution: SUM(count) GROUP BY state ORDER BY count DESC.
get_state_distribution(engine, S, name) ==
    LET rows == StateNameRows(engine, S, name, None)
        OfState(st) == SubBagWhere(rows,
                        {r \in DOMAIN rows : r.state = st})
        groups == {[state |-> st, count |-> SumCount(OfState(st))] :
                      st \in {r.state : r \in DOMAIN rows}}
    IN  OrderByDesc(SetToBag(groups), "count")

-----------------------------------------------------------------------------
(* State machine *)

\* No row is waiting for a commit.
NoPending == [names |-> EmptyBag, states |-> EmptyBag]

\* The record of a call: what it raised, the rows its statements inserted
\* before it ended, the archive member it was about, the committed store,
\* the session and the loop it found, and the call before it.
CallOn(op, error, rows, member) ==
    [op |-> op, raised |-> error, rows |-> rows, member |-> member,
     before |-> [names |-> ssa_names, states |-> ssa_names_by_state,
                 indexes |-> indexes, conn |-> conn,
                 open_sessions |-> open_sessions, csv_files |-> csv_files],
     prev |-> <<last.op, last.raised>>]

Call(op, error, rows) == CallOn(op, error, rows, None)

\* The record of the call that made the engine.
FirstCall(op) ==
    [op |-> op, raised |-> None, rows |-> EmptyBag, member |-> None,
     before |-> [names |-> EmptyBag, states |-> EmptyBag, indexes |-> {},
                 conn |-> FALSE, open_sessions |-> 0, csv_files |-> <<>>],
     prev |-> <<"none", None>>]

\* A call that returned, and a call that raised an error.
Returned(op) == Call(op, None, EmptyBag)
Raised(op, error) == Call(op, Some(error), EmptyBag)

\* create_backend(): the configured backend, constructed and connected.
\* The store is new: no tables yet.  No pipeline is running.
Init ==
    /\ backend \in Backends
    /\ conn = TRUE
    /\ schema = FALSE
    /\ ssa_names = EmptyBag
    /\ ssa_names_by_state = EmptyBag
    /\ indexes = {}
    /\ pending = NoPending
    /\ aborted = FALSE
    /\ open_sessions = 1
    /\ last = FirstCall("create_backend")
    /\ pc = "idle"
    /\ csv_files = <<>>
    /\ zips = [names |-> None, states |-> None]

\* init_database / init_schema(sql_script): runs the DDL and commits.
InitSchema(script) ==
    /\ conn
    /\ schema' = TRUE
    /\ IF script = "drop_and_create"
       THEN ssa_names' = EmptyBag /\ ssa_names_by_state' = EmptyBag
            /\ indexes' = {}
       ELSE UNCHANGED <<ssa_names, ssa_names_by_state, indexes>>
    /\ UNCHANGED <<backend, session_vars, last, run_vars>>

\* insert_names_batch(records): executemany / execute_values, then commit.
\* Mutant of insert_names_batch: the table takes a row it already holds
\* once only, as under a UNIQUE constraint with ON CONFLICT DO NOTHING.
insert_names_batch_unique(records) ==
    ssa_names' = SetToBag(DOMAIN (ssa_names (+) pending.names
                                      (+) SeqToBag(records)))

insert_names_batch(records) ==
    ssa_names' = ssa_names (+) pending.names (+) SeqToBag(records)

\* insert_state_names_batch(records)
insert_state_names_batch(records) ==
    ssa_names_by_state' =
        ssa_names_by_state (+) pending.states (+) SeqToBag(records)

\* What extract_and_load computes for one member before it touches the
\* store: whether the member is a data file, its year, its records.
NationalMember(f) ==
    LET year == _extract_year_from_filename(f.name)
    IN  [file |-> f,
         data |-> IsNationalDataFile(f.name),
         year |-> year,
         records |-> IF year = None THEN None
                     ELSE NationalRecords(f.rows, year[1])]

NationalMembers == {NationalMember(f) : f \in NationalFiles}

\* One iteration of extract_and_load's loop over the archive's members.
\* A member without a year in its name is passed over; a row that raises,
\* or a store without the table, ends the run, whose "finally" closes the
\* session.
LoadNationalFile(m) ==
    /\ conn
    /\ m.data
    /\ IF m.year = None
       THEN UNCHANGED vars
       ELSE IF m.records = None \/ ~schema
       THEN /\ conn' = FALSE
            /\ open_sessions' = open_sessions - 1
            /\ UNCHANGED <<backend, store_vars, pending, aborted, last,
                           run_vars>>
       ELSE /\ BagCardinality(ssa_names) + Len(m.records[1]) <= MaxRows
            /\ insert_names_batch(m.records[1])
            /\ UNCHANGED <<backend, session_vars, schema,
                           ssa_names_by_state, indexes, last, run_vars>>

\* What extract_and_load_states computes for one member.
StateMember(f) ==
    [file |-> f,
     data |-> IsStateDataFile(f.name),
     records |-> StateRecords(f.rows)]

StateMembers == {StateMember(f) : f \in StateFiles}

\* One iteration of extract_and_load_states's loop.
LoadStateFile(m) ==
    /\ conn
    /\ m.data
    /\ IF m.records = None \/ ~schema
       THEN /\ conn' = FALSE
            /\ open_sessions' = open_sessions - 1
            /\ UNCHANGED <<backend, store_vars, pending, aborted, last,
                           run_vars>>
       ELSE /\ BagCardinality(ssa_names_by_state) + Len(m.records[1])
                  <= MaxRows
            /\ insert_state_names_batch(m.records[1])
            /\ UNCHANGED <<backend, session_vars, schema, ssa_names,
                           indexes, last, run_vars>>

\* The national table under load.
Next ==
    \/ \E script \in Scripts : InitSchema(script)
    \/ \E m \in NationalMembers : LoadNationalFile(m)

Spec == Init /\ [][Next]_vars

\* The state table under load.
NextState ==
    \/ \E script \in Scripts : InitSchema(script)
    \/ \E m \in StateMembers : LoadStateFile(m)

SpecState == Init /\ [][NextState]_vars

-----------------------------------------------------------------------------
(* Query arguments *)

mary == <<"m","a","r","y">>

QueryNames == NameTexts \cup {mary}
QueryYears == {1949, 1950}
GenderArgs == {None, Some(GenderF), Some(GenderM)}
Prefixes == {<<"M","a">>, <<"m","a">>, <<"J">>, <<"_","a">>}
Limits == {0, 1, 2, MaxRows}

\* Queries answer only on an open session over an initialised store.
Queryable == conn /\ schema

\* The rows of a bag whose name is n once both are lower-cased.
LowerCaseMatches(B, n) ==
    [r \in {x \in DOMAIN B : Lower(x.name) = Lower(n)} |-> B[r]]

\* The sum of a field over a bag of records, by multiplicity.
FieldTotal(B, field) ==
    LET F[D \in SUBSET DOMAIN B] ==
            IF D = {} THEN 0
            ELSE LET x == CHOOSE y \in D : TRUE
                 IN  x[field] * CopiesIn(x, B) + F[D \ {x}]
    IN  F[DOMAIN B]

\* The sum of a field over a list of records.
ListTotal(list, field) ==
    LET F[i \in 0..Len(list)] ==
            IF i = 0 THEN 0 ELSE list[i][field] + F[i - 1]
    IN  F[Len(list)]

NationalRow(n, g, c, y) == [name |-> n, gender |-> g, count |-> c, year |-> y]

-----------------------------------------------------------------------------
(* Claims *)

\* C1: on the same table contents every contract query gives the same
\* result in SQLiteBackend and in PostgresBackend.
C1_EnginesAgree ==
    Queryable =>
        \A n \in QueryNames :
            /\ get_name_records("sqlite", ssa_names, n)
                   = get_name_records("postgres", ssa_names, n)
            /\ get_name_stats("sqlite", ssa_names, n)
                   = get_name_stats("postgres", ssa_names, n)
            /\ get_gender_breakdown("sqlite", ssa_names, n)
                   = get_gender_breakdown("postgres", ssa_names, n)
            /\ \A g \in GenderArgs :
                   /\ get_name_trends("sqlite", ssa_names, n, g)
                          = get_name_trends("postgres", ssa_names, n, g)
                   /\ get_decade_trends("sqlite", ssa_names, n, g)
                          = get_decade_trends("postgres", ssa_names, n, g)
            /\ \A y \in QueryYears, g \in GenderTexts :
                   get_name_rank("sqlite", ssa_names, n, y, g)
                       = get_name_rank("postgres", ssa_names, n, y, g)

\* C2: in the configured engine get_name_records(n) returns exactly the
\* rows whose name equals n after lower-casing both.
C2_RecordsMatchLowerCased ==
    Queryable =>
        \A n \in QueryNames :
            get_name_records(backend, ssa_names, n)
                = LowerCaseMatches(ssa_names, n)

\* C3: when get_name_records(n) is not empty, get_name_stats(n) gives the
\* sum of the rows' counts, their largest count, the year of a row with
\* that count, and their least and greatest year.
C3_NameStatsAggregates ==
    Queryable =>
        \A n \in QueryNames :
            LET rows == get_name_records(backend, ssa_names, n)
            IN  DOMAIN rows # {} =>
                    \A st \in get_name_stats(backend, ssa_names, n) :
                        /\ st # None
                        /\ st[1].total_count = FieldTotal(rows, "count")
                        /\ \A r \in DOMAIN rows : r.count <= st[1].peak_count
                        /\ \E r \in DOMAIN rows :
                               /\ r.count = st[1].peak_count
                               /\ r.year = st[1].peak_year
                        /\ \A r \in DOMAIN rows :
                               /\ st[1].first_year <= r.year
                               /\ r.year <= st[1].last_year
                        /\ \E r \in DOMAIN rows : r.year = st[1].first_year
                        /\ \E r \in DOMAIN rows : r.year = st[1].last_year

\* C3 witness: yob1950.txt with Mary,F,1000 and John,M,900 is loaded, and
\* the statistics of Mary are total 1000, peak 1000 in 1950, first and
\* last year 1950.
C3_Witness ==
    /\ Queryable
    /\ ssa_names = SetToBag({NationalRow(Mary, GenderF, 1000, 1950),
                             NationalRow(John, GenderM, 900, 1950)})
    /\ \A st \in get_name_stats(backend, ssa_names, Mary) :
           /\ st # None
           /\ st[1].total_count = 1000
           /\ st[1].peak_count = 1000
           /\ st[1].peak_year = 1950
           /\ st[1].first_year = 1950
           /\ st[1].last_year = 1950

\* C4: get_name_stats(n) is None exactly when get_name_records(n) is
\* empty, and a NameStats exactly when it is not.
C4_StatsNoneIffNoRecords ==
    Queryable =>
        \A n \in QueryNames :
            \A st \in get_name_stats(backend, ssa_names, n) :
                (st = None) <=>
                    (get_name_records(backend, ssa_names, n) = EmptyBag)

\* C4 witness: a table with rows of Mary and none of John: one name with
\* statistics, one without.
C4_Witness ==
    /\ Queryable
    /\ get_name_records(backend, ssa_names, Mary) # EmptyBag
    /\ get_name_stats(backend, ssa_names, John) = {None}
    /\ None \notin get_name_stats(backend, ssa_names, Mary)

\* C5: for every name in the table, the counts of get_name_trends(n)
\* without a gender add up to get_name_stats(n).total_count.
C5_TrendsSumIsTotal ==
    Queryable =>
        \A n \in {r.name : r \in DOMAIN ssa_names} :
            \A st \in get_name_stats(backend, ssa_names, n) :
                /\ st # None
                /\ ListTotal(get_name_trends(backend, ssa_names, n, None),
                             "count") = st[1].total_count

\* C5 witness: a name with rows of both genders in one year and a row in
\* another year, so that the trend has two entries and one of them is a
\* sum.
C5_Witness ==
    /\ Queryable
    /\ \E n \in NameTexts :
           LET trend == get_name_trends(backend, ssa_names, n, None)
           IN  /\ Len(trend) = 2
               /\ \E r1, r2 \in DOMAIN ssa_names :
                      /\ r1.name = n /\ r2.name = n
                      /\ r1.year = r2.year /\ r1.gender # r2.gender

\* The rows of the table with year y and gender g.
InPartition(y, g) == {r \in DOMAIN ssa_names : r.year = y /\ r.gender = g}

\* C6 as stated: get_top_names(y, g, K) has at most K entries, all from
\* rows of year y and gender g, with counts strictly descending and ranks
\* 1, 2, 3, ... in list order.
C6_TopNamesStrictlyDescending ==
    Queryable =>
        \A y \in QueryYears, g \in GenderTexts, K \in Limits :
            \A top \in get_top_names(backend, ssa_names, y, Some(g), K) :
                /\ Len(top) <= K
                /\ \A i \in 1..Len(top) :
                       /\ top[i].rank = i
                       /\ top[i].gender = g
                       /\ \E r \in InPartition(y, g) :
                              r.name = top[i].name /\ r.count = top[i].count
                /\ \A i \in 1..(Len(top) - 1) : top[i].count > top[i + 1].count

\* C6 amended: get_top_names(y, g, K) has at most K entries, all from rows
\* of year y and gender g, with counts never increasing in list order
\* (equal counts may follow each other) and ranks 1, 2, 3, ... in list
\* order.
C6_TopNamesRanked ==
    Queryable =>
        \A y \in QueryYears, g \in GenderTexts, K \in Limits :
            \A top \in get_top_names(backend, ssa_names, y, Some(g), K) :
                /\ Len(top) <= K
                /\ \A i \in 1..Len(top) :
                       /\ top[i].rank = i
                       /\ top[i].gender = g
                       /\ \E r \in InPartition(y, g) :
                              r.name = top[i].name /\ r.count = top[i].count
                /\ \A i \in 1..(Len(top) - 1) : top[i].count >= top[i + 1].count

\* C6 witness: a partition of three rows, two of them with the same count,
\* returned whole with ranks 1, 2, 3.
C6_Witness ==
    /\ Queryable
    /\ \E y \in QueryYears, g \in GenderTexts :
           \E top \in get_top_names(backend, ssa_names, y, Some(g), MaxRows) :
               /\ Len(top) = 3
               /\ top[1].count > top[2].count
               /\ top[2].count = top[3].count
               /\ top[3].rank = 3

\* The entries of a ranking whose name is n as the engine compares names.
EntriesOf(top, n) ==
    {i \in 1..Len(top) : NameEquals(backend, top[i].name, n)}

\* C7 as stated: when n has a row in the (y, g) partition, get_name_rank
\* is the rank of n's entry in get_top_names(y, g) with a limit that
\* returns the whole partition; otherwise it is None.
C7_RankIsTopNamesRank ==
    Queryable =>
        \A n \in QueryNames, y \in QueryYears, g \in GenderTexts :
            \A rk \in get_name_rank(backend, ssa_names, n, y, g) :
                \A top \in get_top_names(backend, ssa_names, y, Some(g),
                                         MaxRows) :
                    IF EntriesOf(top, n) # {}
                    THEN /\ rk # None
                         /\ \A i \in EntriesOf(top, n) : top[i].rank = rk[1]
                    ELSE rk = None

\* n has more than one row in the (y, g) partition, or its row has the
\* count of another row of the partition.
RankAmbiguous(n, y, g) ==
    \E r \in InPartition(y, g) :
        /\ NameEquals(backend, r.name, n)
        /\ \/ CopiesIn(r, ssa_names) > 1
           \/ \E q \in InPartition(y, g) :
                  q # r /\ (q.count = r.count \/ NameEquals(backend, q.name, n))

\* C7 amended: when n has a row in the (y, g) partition, get_name_rank is
\* the rank of an entry of n in a whole-partition get_top_names(y, g)
\* ranking, and the rank of n's entry in every such ranking when n has one
\* row there and no other row of the partition has its count; when n has
\* no row in the partition it is None.
C7_RankIsSomeTopNamesRank ==
    Queryable =>
        \A n \in QueryNames, y \in QueryYears, g \in GenderTexts :
            LET tops == get_top_names(backend, ssa_names, y, Some(g), MaxRows)
            IN  \A rk \in get_name_rank(backend, ssa_names, n, y, g) :
                    IF \E r \in InPartition(y, g) :
                           NameEquals(backend, r.name, n)
                    THEN /\ rk # None
                         /\ \E top \in tops : \E i \in EntriesOf(top, n) :
                                top[i].rank = rk[1]
                         /\ ~RankAmbiguous(n, y, g) =>
                                \A top \in tops : \A i \in EntriesOf(top, n) :
                                    top[i].rank = rk[1]
                    ELSE rk = None

\* C7 witness: a partition where one name is second behind a larger
\* count, and a name with no row in it.
C7_Witness ==
    /\ Queryable
    /\ \E y \in QueryYears, g \in GenderTexts :
           /\ \E n \in NameTexts :
                  /\ ~RankAmbiguous(n, y, g)
                  /\ get_name_rank(backend, ssa_names, n, y, g) = {Some(2)}
           /\ \E n \in NameTexts :
                  get_name_rank(backend, ssa_names, n, y, g) = {None}

\* C8: the decades of get_decade_trends(n) are multiples of 10, each once,
\* they are the floor(year / 10) * 10 of the rows of n, each bucket is the
\* sum of the counts of the rows of its decade, and the buckets add up to
\* get_name_stats(n).total_count.
C8_DecadeBuckets ==
    Queryable =>
        \A n \in QueryNames :
            LET d == get_decade_trends(backend, ssa_names, n, None)
                rows == get_name_records(backend, ssa_names, n)
                Floor10(y) == (y \div 10) * 10
                Of(dec) == [r \in {x \in DOMAIN rows : Floor10(x.year) = dec}
                               |-> rows[r]]
            IN  /\ \A i \in 1..Len(d) :
                       /\ d[i].decade % 10 = 0
                       /\ d[i].count = FieldTotal(Of(d[i].decade), "count")
                       /\ \A j \in 1..Len(d) :
                              d[i].decade = d[j].decade => i = j
                /\ {d[i].decade : i \in 1..Len(d)}
                       = {Floor10(r.year) : r \in DOMAIN rows}
                /\ \A st \in get_name_stats(backend, ssa_names, n) :
                       IF st = None THEN d = <<>>
                       ELSE ListTotal(d, "count") = st[1].total_count

\* C8 witness: a name with one row in 1949 and two rows in 1950: two
\* buckets, 1940 and 1950, the second the sum of two rows.
C8_Witness ==
    /\ Queryable
    /\ \E n \in NameTexts :
           LET d == get_decade_trends(backend, ssa_names, n, None)
           IN  /\ Len(d) = 2
               /\ d[1].decade = 1940
               /\ d[2].decade = 1950
               /\ \E r1, r2 \in DOMAIN ssa_names :
                      /\ r1 # r2
                      /\ r1.name = n /\ r2.name = n
                      /\ r1.year = 1950 /\ r2.year = 1950
                      /\ d[2].count = r1.count + r2.count

\* C9: search_names(p, L) has at most L entries, every name in it starts
\* with p once both are lower-cased, every total_count is the sum of the
\* counts of the rows of that name, and total_count is strictly
\* descending in list order.
C9_SearchNamesPrefix ==
    Queryable =>
        \A p \in Prefixes, L \in Limits :
            \A res \in search_names(backend, ssa_names, p, L) :
                /\ Len(res) <= L
                /\ \A i \in 1..Len(res) :
                       /\ StartsWith(Lower(res[i].name), Lower(p))
                       /\ res[i].total_count =
                              FieldTotal([r \in {x \in DOMAIN ssa_names :
                                                    x.name = res[i].name}
                                             |-> ssa_names[r]], "count")
                /\ \A i \in 1..(Len(res) - 1) :
                       res[i].total_count > res[i + 1].total_count

\* The number a numeral of the input universe writes.
NumeralValue ==
    (Text400 :> 400) @@ (Text600 :> 600) @@ (Text1949 :> 1949)
        @@ (Text1950 :> 1950) @@ (Text900 :> 900) @@ (Text1000 :> 1000)

\* C10: get_state_distribution(n) has one entry for each state with a row
\* of n, its count the sum of the counts of the rows of n in that state,
\* in descending order of count; and every stored state row is a line
\* state,gender,year,name,count of a state file with those field meanings.
C10_StateDistribution ==
    Queryable =>
        /\ \A n \in QueryNames :
               LET rows == get_name_by_state(backend, ssa_names_by_state,
                                             n, None)
                   In(st) == [r \in {x \in DOMAIN rows : x.state = st}
                                 |-> rows[r]]
               IN  \A dist \in get_state_distribution(
                                   backend, ssa_names_by_state, n) :
                       /\ {dist[i].state : i \in 1..Len(dist)}
                              = {r.state : r \in DOMAIN rows}
                       /\ \A i, j \in 1..Len(dist) :
                              dist[i].state = dist[j].state => i = j
                       /\ \A i \in 1..Len(dist) :
                              dist[i].count
                                  = FieldTotal(In(dist[i].state), "count")
                       /\ \A i \in 1..(Len(dist) - 1) :
                              dist[i].count >= dist[i + 1].count
        /\ \A r \in DOMAIN ssa_names_by_state :
               \E f \in StateFiles : \E k \in 1..Len(f.rows) :
                   LET line == f.rows[k]
                   IN  /\ Len(line) = 5
                       /\ line[3] \in DOMAIN NumeralValue
                       /\ line[5] \in DOMAIN NumeralValue
                       /\ r = [state |-> line[1], gender |-> line[2],
                               year |-> NumeralValue[line[3]],
                               name |-> line[4],
                               count |-> NumeralValue[line[5]]]

\* C10 witness: the state file with CA,F,1950,Mary,400 and
\* NY,F,1950,Mary,600 is loaded and the distribution of Mary is
\* NY 600, CA 400.
C10_Witness ==
    /\ Queryable
    /\ ssa_names_by_state =
           SetToBag({[state |-> StateCA, name |-> Mary, gender |-> GenderF,
                      count |-> 400, year |-> 1950],
                     [state |-> StateNY, name |-> Mary, gender |-> GenderF,
                      count |-> 600, year |-> 1950]})
    /\ get_state_distribution(backend, ssa_names_by_state, Mary)
           = {<<[state |-> StateNY, count |-> 600],
                [state |-> StateCA, count |-> 400]>>}

-----------------------------------------------------------------------------
(* The engine, call by call *)

\* Most sessions one instance has open in the model.
MaxSessions == 3

Tables == {"ssa_names", "ssa_names_by_state"}

\* The three indexes create_indexes names for a table.
IndexesOf(table_name) ==
    {<<table_name, "name">>, <<table_name, "year">>,
     <<table_name, "name_year">>}

CreateIndexesOp(table_name) ==
    IF table_name = "ssa_names" THEN "create_indexes(ssa_names)"
    ELSE "create_indexes(ssa_names_by_state)"

\* The batches the engine is handed.
NationalBatches ==
    {<<NationalRow(Mary, GenderF, 400, 1950),
       NationalRow(John, GenderM, 600, 1950)>>}

StateBatches ==
    {<<[state |-> StateCA, name |-> Mary, gender |-> GenderF,
        count |-> 400, year |-> 1950],
       [state |-> StateNY, name |-> Mary, gender |-> GenderF,
        count |-> 600, year |-> 1950]>>}

\* An engine constructed and not connected: __init__ sets _conn to None.
InitEngine ==
    /\ backend \in Backends
    /\ conn = FALSE
    /\ schema = FALSE
    /\ ssa_names = EmptyBag
    /\ ssa_names_by_state = EmptyBag
    /\ indexes = {}
    /\ pending = NoPending
    /\ aborted = FALSE
    /\ open_sessions = 0
    /\ last = FirstCall("__init__")
    /\ pc = "idle"
    /\ csv_files = <<>>
    /\ zips = [names |-> None, states |-> None]

\* connect(): a new session is opened and assigned to _conn, whatever
\* _conn held.  A session _conn held is closed by nobody: it stays open,
\* unless the interpreter finalises the unreferenced object.  When the
\* driver raises, _conn keeps what it held.
connect(ok) ==
    IF ok
    THEN /\ open_sessions < MaxSessions
         /\ conn' = TRUE
         /\ open_sessions' \in
                (IF conn THEN {open_sessions, open_sessions + 1}
                 ELSE {open_sessions + 1})
         /\ pending' = NoPending
         /\ aborted' = FALSE
         /\ last' = Returned("connect")
         /\ UNCHANGED <<backend, store_vars, run_vars>>
    ELSE /\ last' = Raised("connect", "OperationalError")
         /\ UNCHANGED <<backend, store_vars, session_vars, run_vars>>

\* Mutant of close: the session is closed without "if self._conn".
close_unguarded ==
    /\ IF conn
       THEN /\ conn' = FALSE
            /\ open_sessions' = open_sessions - 1
            /\ pending' = NoPending
            /\ aborted' = FALSE
            /\ last' = Returned("close")
       ELSE /\ last' = Raised("close", "AttributeError")
            /\ UNCHANGED session_vars
    /\ UNCHANGED <<backend, store_vars, run_vars>>

\* close(): closes the session _conn holds, if any, and forgets it.  What
\* the session had not committed is lost.
close ==
    /\ IF conn
       THEN /\ conn' = FALSE
            /\ open_sessions' = open_sessions - 1
            /\ pending' = NoPending
            /\ aborted' = FALSE
       ELSE UNCHANGED session_vars
    /\ last' = Returned("close")
    /\ UNCHANGED <<backend, store_vars, run_vars>>

\* Mutant of NotConnected: the conn property hands out _conn as it is, and
\* the caller fails on None.
NotConnectedUnchecked(op) ==
    /\ ~conn
    /\ last' = Raised(op, "AttributeError")
    /\ UNCHANGED <<backend, store_vars, session_vars, run_vars>>

\* The conn property without a session: RuntimeError.
NotConnected(op) ==
    /\ ~conn
    /\ last' = Raised(op, "RuntimeError")
    /\ UNCHANGED <<backend, store_vars, session_vars, run_vars>>

\* A statement the store rejects.  psycopg2 leaves the transaction failed,
\* and the engine never rolls back; sqlite3 keeps the transaction.
StatementFails(op, rows) ==
    /\ conn
    /\ last' = Call(op, Some("StoreError"), rows)
    /\ aborted' = (backend = "postgres")
    /\ UNCHANGED <<backend, store_vars, conn, open_sessions, run_vars>>

\* conn.commit(): what the session inserted becomes part of the store.
Commit ==
    /\ ssa_names' = ssa_names (+) pending.names
    /\ ssa_names_by_state' = ssa_names_by_state (+) pending.states
    /\ pending' = NoPending

\* init_schema(sql_script) as a call on the engine.
init_schema(sql_script) ==
    \/ NotConnected("init_schema")
    \/ /\ aborted
       /\ StatementFails("init_schema", EmptyBag)
       /\ UNCHANGED pending
    \/ /\ conn /\ ~aborted
       /\ schema' = TRUE
       /\ IF sql_script = "drop_and_create"
          THEN /\ ssa_names' = EmptyBag
               /\ ssa_names_by_state' = EmptyBag
               /\ pending' = NoPending
               /\ indexes' = {}
          ELSE Commit /\ UNCHANGED indexes
       /\ last' = Returned("init_schema")
       /\ UNCHANGED <<backend, conn, aborted, open_sessions, run_vars>>

\* Mutant of create_indexes: CREATE INDEX without IF NOT EXISTS.
create_indexes_unguarded(table_name) ==
    \/ NotConnected(CreateIndexesOp(table_name))
    \/ /\ aborted \/ ~schema \/ IndexesOf(table_name) \cap indexes # {}
       /\ StatementFails(CreateIndexesOp(table_name), EmptyBag)
       /\ UNCHANGED pending
    \/ /\ conn /\ ~aborted /\ schema
       /\ IndexesOf(table_name) \cap indexes = {}
       /\ indexes' = indexes \cup IndexesOf(table_name)
       /\ Commit
       /\ last' = Returned(CreateIndexesOp(table_name))
       /\ UNCHANGED <<backend, schema, conn, aborted, open_sessions, run_vars>>

\* create_indexes(table_name): three CREATE INDEX IF NOT EXISTS, commit.
create_indexes(table_name) ==
    \/ NotConnected(CreateIndexesOp(table_name))
    \/ /\ aborted \/ ~schema
       /\ StatementFails(CreateIndexesOp(table_name), EmptyBag)
       /\ UNCHANGED pending
    \/ /\ conn /\ ~aborted /\ schema
       /\ indexes' = indexes \cup IndexesOf(table_name)
       /\ Commit
       /\ last' = Returned(CreateIndexesOp(table_name))
       /\ UNCHANGED <<backend, schema, conn, aborted, open_sessions, run_vars>>

\* execute_values(..., page_size=5000): rows per INSERT statement.
page_size == 5000

\* The rows a batch call's statements have inserted when the store rejects
\* record `failing`: sqlite3's executemany runs one INSERT per record;
\* execute_values runs one INSERT per page, and a rejected page inserts
\* nothing.
InsertedBefore(records, failing) ==
    IF backend = "sqlite"
    THEN SeqToBag(SubSeq(records, 1, failing - 1))
    ELSE SeqToBag(SubSeq(records, 1,
                         ((failing - 1) \div page_size) * page_size))

\* A batch call whose statement for record `failing` the store rejects:
\* the error leaves the call before conn.commit().  sqlite3 keeps the rows
\* inserted so far in the open transaction; psycopg2's transaction fails
\* as a whole.
BatchFails(op, table, records, failing) ==
    /\ conn /\ ~aborted /\ schema
    /\ failing \in 1..Len(records)
    /\ StatementFails(op, InsertedBefore(records, failing))
    /\ pending' =
           IF backend = "sqlite"
           THEN [pending EXCEPT
                    ![table] = @ (+) InsertedBefore(records, failing)]
           ELSE pending

\* insert_names_batch(records) as a call on the engine; the store rejects
\* record `failing` (0: none).
CallInsertNamesBatch(records, failing) ==
    \/ NotConnected("insert_names_batch")
    \/ /\ aborted \/ ~schema
       /\ StatementFails("insert_names_batch", EmptyBag)
       /\ UNCHANGED pending
    \/ /\ conn /\ ~aborted /\ schema
       /\ failing = 0
       /\ BagCardinality(ssa_names (+) pending.names) + Len(records)
              <= MaxRows
       /\ insert_names_batch(records)
       /\ ssa_names_by_state' = ssa_names_by_state (+) pending.states
       /\ pending' = NoPending
       /\ last' = Call("insert_names_batch", None, SeqToBag(records))
       /\ UNCHANGED <<backend, schema, indexes, conn, aborted, open_sessions,
                      run_vars>>
    \/ /\ BagCardinality(ssa_names (+) pending.names) + Len(records)
              <= MaxRows
       /\ BatchFails("insert_names_batch", "names", records, failing)

\* insert_state_names_batch(records) as a call on the engine.
CallInsertStateNamesBatch(records, failing) ==
    \/ NotConnected("insert_state_names_batch")
    \/ /\ aborted \/ ~schema
       /\ StatementFails("insert_state_names_batch", EmptyBag)
       /\ UNCHANGED pending
    \/ /\ conn /\ ~aborted /\ schema
       /\ failing = 0
       /\ BagCardinality(ssa_names_by_state (+) pending.states)
              + Len(records) <= MaxRows
       /\ insert_state_names_batch(records)
       /\ ssa_names' = ssa_names (+) pending.names
       /\ pending' = NoPending
       /\ last' = Call("insert_state_names_batch", None, SeqToBag(records))
       /\ UNCHANGED <<backend, schema, indexes, conn, aborted, open_sessions,
                      run_vars>>
    \/ /\ BagCardinality(ssa_names_by_state (+) pending.states)
              + Len(records) <= MaxRows
       /\ BatchFails("insert_state_names_batch", "states", records, failing)

\* A query: _fetchall / _fetchone on self.conn.
_fetchall ==
    \/ NotConnected("_fetchall")
    \/ /\ aborted \/ ~schema
       /\ StatementFails("_fetchall", EmptyBag)
       /\ UNCHANGED pending
    \/ /\ conn /\ ~aborted /\ schema
       /\ last' = Returned("_fetchall")
       /\ UNCHANGED <<backend, store_vars, session_vars, run_vars>>

\* One engine instance under any sequence of calls.
NextEngine ==
    \/ \E ok \in BOOLEAN : connect(ok)
    \/ close
    \/ \E sql_script \in Scripts : init_schema(sql_script)
    \/ \E table_name \in Tables : create_indexes(table_name)
    \/ \E records \in NationalBatches : \E failing \in 0..Len(records) :
           CallInsertNamesBatch(records, failing)
    \/ \E records \in StateBatches : \E failing \in 0..Len(records) :
           CallInsertStateNamesBatch(records, failing)
    \/ _fetchall

SpecEngine == InitEngine /\ [][NextEngine]_vars

-----------------------------------------------------------------------------
(* Claims about the engine *)

\* C11: a create_indexes(table) call that follows a create_indexes(table)
\* call that returned also returns, and leaves the rows of both tables,
\* the indexes and the results of the queries as it found them.
C11_CreateIndexesIdempotent ==
    \A table_name \in Tables :
        (/\ last.op = CreateIndexesOp(table_name)
         /\ last.prev = <<CreateIndexesOp(table_name), None>>)
        => /\ last.raised = None
           /\ conn
           /\ ssa_names = last.before.names
           /\ ssa_names_by_state = last.before.states
           /\ indexes = last.before.indexes
           /\ IndexesOf(table_name) \subseteq indexes
           /\ \A n \in QueryNames :
                  /\ get_name_records(backend, ssa_names, n)
                         = get_name_records(backend, last.before.names, n)
                  /\ get_state_distribution(backend, ssa_names_by_state, n)
                         = get_state_distribution(backend,
                                                  last.before.states, n)

\* C11 witness: create_indexes("ssa_names") called twice in a row on a
\* table that has rows.
C11_Witness ==
    /\ last.op = CreateIndexesOp("ssa_names")
    /\ last.prev = <<CreateIndexesOp("ssa_names"), None>>
    /\ last.raised = None
    /\ ssa_names # EmptyBag
    /\ IndexesOf("ssa_names") \subseteq indexes

\* The committed store is as the last call found it.
StoreAsBefore ==
    /\ ssa_names = last.before.names
    /\ ssa_names_by_state = last.before.states
    /\ indexes = last.before.indexes

\* C17: close() raises nothing and leaves the engine without a session,
\* whatever state it is called in; it releases the session of a connected
\* engine, and on an engine without a session it changes nothing.
C17_CloseIsSafe ==
    last.op = "close" =>
        /\ last.raised = None
        /\ ~conn
        /\ StoreAsBefore
        /\ open_sessions =
               IF last.before.conn THEN last.before.open_sessions - 1
               ELSE last.before.open_sessions

\* C17 witness: close() on an engine whose connect() has just failed and
\* that held no session.
C17_Witness ==
    /\ last.op = "close"
    /\ last.prev = <<"connect", Some("OperationalError")>>
    /\ ~last.before.conn
    /\ ~conn
    /\ last.raised = None

\* The calls that go through the conn property.
SessionCalls ==
    {"init_schema", "insert_names_batch", "insert_state_names_batch",
     "_fetchall"} \cup {CreateIndexesOp(table_name) : table_name \in Tables}

\* C18: a query or ingestion call on an engine without a session raises
\* the not-connected error and leaves store and engine as they were; a
\* call that follows a connect() that returned does not raise it.
C18_NotConnectedRaises ==
    last.op \in SessionCalls =>
        /\ ~last.before.conn =>
               /\ last.raised = Some("RuntimeError")
               /\ StoreAsBefore
               /\ ~conn
               /\ pending = NoPending
        /\ last.before.conn => last.raised # Some("RuntimeError")

\* C18 witness: an insert on an engine that loaded rows and was closed.
C18_Witness ==
    /\ last.op = "insert_names_batch"
    /\ last.prev = <<"close", None>>
    /\ last.raised = Some("RuntimeError")
    /\ ssa_names # EmptyBag

\* C19: when the store rejects a record partway through a batch call, the
\* rows the call inserted before that are committed: they are in the
\* store.
C19_PartialBatchCommitted ==
    (last.raised = Some("StoreError") /\ last.rows # EmptyBag) =>
        /\ last.op = "insert_names_batch" =>
               ssa_names = last.before.names (+) last.rows
        /\ last.op = "insert_state_names_batch" =>
               ssa_names_by_state = last.before.states (+) last.rows

\* C20: the instance has at most one session open.
C20_AtMostOneSession == open_sessions <= 1

\* ------------------------------------------------------------------
\* NamesDataPipeline.run(), step by step
\* ------------------------------------------------------------------

\* The most members an archive holds.
MaxFiles == 2

SeqsUpTo(S, n) == UNION {[1..k -> S] : k \in 0..n}

\* Members of names.zip: a file of two well-formed lines, a data file
\* whose name holds no year, files whose first line has four columns, two
\* columns, or a count that is no integer, a file whose line carries a
\* gender that is neither M nor F and a negative count, and a member that
\* is no data file.
RunNationalFiles ==
    {[name |-> Yob1950Txt,
      rows |-> <<<<Mary, GenderF, Text1000>>, <<John, GenderM, Text900>>>>],
     [name |-> ReadmeTxt, rows |-> <<<<Mary, GenderF, Text400>>>>],
     [name |-> Yob1949Txt,
      rows |-> <<<<Mary, GenderF, Text400, Text600>>,
                 <<John, GenderM, Text600>>>>],
     [name |-> Yob1949Txt,
      rows |-> <<<<Mary, GenderF>>, <<John, GenderM, Text600>>>>],
     [name |-> Yob1949Txt,
      rows |-> <<<<Mary, GenderF, TextAbc>>, <<John, GenderM, Text600>>>>],
     [name |-> Yob1949Txt, rows |-> <<<<Mary, GenderX, TextMinus400>>>>],
     [name |-> ReadmePdf, rows |-> <<<<Mary, GenderF, Text400>>>>]}

\* Members of namesbystate.zip: a file of two well-formed lines, files
\* whose first line has four columns or a count that is no integer, and a
\* file whose line carries the year 400.
RunStateFiles ==
    {[name |-> StatesTxt,
      rows |-> <<<<StateCA, GenderF, Text1950, Mary, Text400>>,
                 <<StateNY, GenderF, Text1950, Mary, Text600>>>>],
     [name |-> StatesTxt,
      rows |-> <<<<StateCA, GenderF, Text1950, Mary>>,
                 <<StateNY, GenderF, Text1950, Mary, Text600>>>>],
     [name |-> StatesTxt,
      rows |-> <<<<StateCA, GenderF, Text1950, Mary, TextAbc>>,
                 <<StateNY, GenderF, Text1950, Mary, Text600>>>>],
     [name |-> StatesTxt,
      rows |-> <<<<StateCA, GenderF, Text400, Mary, Text400>>>>]}

RunNationalMembers == {NationalMember(f) : f \in RunNationalFiles}
RunStateMembers == {StateMember(f) : f \in RunStateFiles}

IsDataMember(m) == m.data

\* "backend = create_backend(); pipeline = NamesDataPipeline(backend)":
\* a connected engine, the two archives on disk (None: the archive is not
\* there), and a store that is new or holds a row of an earlier run.
InitRun ==
    /\ backend \in Backends
    /\ conn = TRUE
    /\ open_sessions = 1
    /\ pending = NoPending
    /\ aborted = FALSE
    /\ \E earlier \in {<<>>, <<NationalRow(Mary, GenderF, 400, 1949)>>} :
          /\ ssa_names = SeqToBag(earlier)
          /\ schema = (earlier # <<>>)
    /\ ssa_names_by_state = EmptyBag
    /\ indexes = {}
    /\ last = FirstCall("create_backend")
    /\ pc = "init_database"
    /\ csv_files = <<>>
    /\ zips \in [names : {None} \cup {Some(a) : a \in
                              SeqsUpTo(RunNationalMembers, MaxFiles)},
                 states : {None} \cup {Some(a) : a \in
                              SeqsUpTo(RunStateMembers, MaxFiles)}]

\* What close() does to the session.
Released ==
    /\ conn' = FALSE
    /\ open_sessions' = IF conn THEN open_sessions - 1 ELSE open_sessions
    /\ pending' = NoPending
    /\ aborted' = FALSE

\* Mutant of RunFails: run() without its "finally".
RunFailsNoFinally(step, error, member) ==
    /\ pc' = "raised"
    /\ last' = CallOn(step, Some(error), EmptyBag, member)
    /\ UNCHANGED <<backend, store_vars, session_vars, csv_files, zips>>

\* A step of run() raises: "except Exception: ... raise" hands the error
\* on, after "finally: self.db.close()".  What the step's open
\* transaction held is lost with the session.
RunFails(step, error, member) ==
    /\ Released
    /\ pc' = "raised"
    /\ last' = CallOn(step, Some(error), EmptyBag, member)
    /\ UNCHANGED <<backend, store_vars, csv_files, zips>>

\* A step of run() returns.
RunStep(step, next, rows, member) ==
    /\ pc' = next
    /\ last' = CallOn(step, None, rows, member)
    /\ UNCHANGED <<backend, session_vars, zips>>

\* self.init_database(): the schema file is read and executed.
run_init_database ==
    /\ pc = "init_database"
    /\ \/ RunFails("init_database", "FileNotFoundError", None)
       \/ \E sql_script \in Scripts :
             /\ schema' = TRUE
             /\ IF sql_script = "drop_and_create"
                THEN /\ ssa_names' = EmptyBag
                     /\ ssa_names_by_state' = EmptyBag
                     /\ indexes' = {}
                ELSE UNCHANGED <<ssa_names, ssa_names_by_state, indexes>>
             /\ csv_files' = <<>>
             /\ RunStep("init_database", "open(names.zip)", EmptyBag, None)

\* "with zipfile.ZipFile(path) as zf: csv_files = [f for f in
\* zf.namelist() if ...]" of either load.
OpenZip(step, archive, loop) ==
    /\ pc = step
    /\ IF archive = None
       THEN RunFails(step, "FileNotFoundError", None)
       ELSE /\ csv_files' = SelectSeq(archive[1], IsDataMember)
            /\ RunStep(step, loop, EmptyBag, None)
            /\ UNCHANGED store_vars

run_open_names_zip ==
    OpenZip("open(names.zip)", zips.names, "extract_and_load")

\* Mutant of run_open_names_by_state_zip: the state load starts as soon as
\* the national loop is over, before the national indexes and reads.
run_open_names_by_state_zip_early ==
    /\ csv_files = <<>>
    /\ \/ OpenZip("extract_and_load", zips.states, "extract_and_load_states")
       \/ OpenZip("open(namesbystate.zip)", zips.states,
                  "extract_and_load_states")

run_open_names_by_state_zip ==
    OpenZip("open(namesbystate.zip)", zips.states, "extract_and_load_states")

\* One iteration of extract_and_load's "for filename in csv_files".
run_extract_and_load ==
    /\ pc = "extract_and_load"
    /\ csv_files # <<>>
    /\ LET m == Head(csv_files)
       IN  IF m.year = None
           THEN /\ csv_files' = Tail(csv_files)
                /\ RunStep("extract_and_load", pc, EmptyBag, Some(m))
                /\ UNCHANGED store_vars
           ELSE IF m.records = None
           THEN RunFails("extract_and_load", "ValueError", Some(m))
           ELSE \/ /\ insert_names_batch(m.records[1])
                   /\ csv_files' = Tail(csv_files)
                   /\ RunStep("extract_and_load", pc,
                              SeqToBag(m.records[1]), Some(m))
                   /\ UNCHANGED <<schema, ssa_names_by_state, indexes>>
                \/ RunFails("extract_and_load", "StoreError", Some(m))

\* One iteration of extract_and_load_states's "for filename in csv_files".
run_extract_and_load_states ==
    /\ pc = "extract_and_load_states"
    /\ csv_files # <<>>
    /\ LET m == Head(csv_files)
       IN  IF m.records = None
           THEN RunFails("extract_and_load_states", "ValueError", Some(m))
           ELSE \/ /\ insert_state_names_batch(m.records[1])
                   /\ csv_files' = Tail(csv_files)
                   /\ RunStep("extract_and_load_states", pc,
                              SeqToBag(m.records[1]), Some(m))
                   /\ UNCHANGED <<schema, ssa_names, indexes>>
                \/ RunFails("extract_and_load_states", "StoreError", Some(m))

\* The loop of a load is over; self.db.create_indexes(table_name) follows.
run_create_indexes(loop, table_name) ==
    /\ pc = loop
    /\ csv_files = <<>>
    /\ \/ /\ indexes' = indexes \cup IndexesOf(table_name)
          /\ RunStep(CreateIndexesOp(table_name),
                     "verify_data(" \o table_name \o ")", EmptyBag, None)
          /\ UNCHANGED <<schema, ssa_names, ssa_names_by_state, csv_files>>
       \/ RunFails(CreateIndexesOp(table_name), "StoreError", None)

\* self.verify_data(table_name): three reads, logged.
run_verify_data(table_name, next) ==
    /\ pc = "verify_data(" \o table_name \o ")"
    /\ \/ /\ RunStep(pc, next, EmptyBag, None)
          /\ UNCHANGED <<store_vars, csv_files>>
       \/ RunFails(pc, "StoreError", None)

\* "finally: self.db.close()" of a run no step of which raised.
run_finally ==
    /\ pc = "finally"
    /\ Released
    /\ pc' = "done"
    /\ last' = Returned("close")
    /\ UNCHANGED <<backend, store_vars, csv_files, zips>>

NextRun ==
    \/ run_init_database
    \/ run_open_names_zip
    \/ run_extract_and_load
    \/ run_create_indexes("extract_and_load", "ssa_names")
    \/ run_verify_data("ssa_names", "open(namesbystate.zip)")
    \/ run_open_names_by_state_zip
    \/ run_extract_and_load_states
    \/ run_create_indexes("extract_and_load_states", "ssa_names_by_state")
    \/ run_verify_data("ssa_names_by_state", "finally")
    \/ run_finally

SpecRun == InitRun /\ [][NextRun]_vars

\* ------------------------------------------------------------------
\* Claims about the pipeline run
\* ------------------------------------------------------------------

\* The member the last step of a load was about, if it was about one.
LoadedMember(step) ==
    IF last.op = step /\ last.member # None THEN last.member ELSE None

HasFourDigits(filename) ==
    \E i \in 1..(Len(filename) - 3) :
        \A k \in 0..3 :
            filename[i + k] \in {"0","1","2","3","4","5","6","7","8","9"}

\* C12: during the national load a data file whose name holds no 4-digit
\* year is skipped entirely: no insert is made for it, none of its rows
\* reaches the store, and the load goes on with the remaining files.
C12_FileWithoutYearSkipped ==
    LET m == LoadedMember("extract_and_load")
    IN  (m # None /\ ~HasFourDigits(m[1].file.name))
        => /\ last.raised = None
           /\ last.rows = EmptyBag
           /\ StoreAsBefore
           /\ conn
           /\ pc = "extract_and_load"
           /\ csv_files = Tail(last.before.csv_files)

\* A file without a year was passed over and a file is left to load.
C12_Witness ==
    LET m == LoadedMember("extract_and_load")
    IN  /\ m # None
        /\ ~HasFourDigits(m[1].file.name)
        /\ m[1].file.rows # <<>>
        /\ csv_files # <<>>
        /\ pc = "extract_and_load"

IsThreeColumns(row) == Len(row) = 3

IsFiveColumns(row) == Len(row) = 5

IsNumeral(t) == t \in DOMAIN NumeralValue

\* The rows the well-formed 3-column lines of a national file stand for.
ThreeColumnRows(rows, year) ==
    LET lines == SelectSeq(rows, IsThreeColumns)
    IN  SeqToBag([i \in 1..Len(lines) |->
                    NationalRow(lines[i][1], lines[i][2],
                                NumeralValue[lines[i][3]], year)])

\* C13: during the national load every line of a matched file without
\* exactly 3 columns is dropped, with no stored row and no error, and
\* every 3-column line of the file is inserted.
C13_NationalLinesOfThreeColumns ==
    LET m == LoadedMember("extract_and_load")
    IN  (/\ m # None
         /\ HasFourDigits(m[1].file.name)
         /\ \A i \in 1..Len(m[1].file.rows) :
               IsThreeColumns(m[1].file.rows[i])
                   => IsNumeral(m[1].file.rows[i][3])
         /\ last.raised # Some("StoreError"))
        => /\ last.raised = None
           /\ ssa_names = last.before.names
                  (+) ThreeColumnRows(m[1].file.rows, m[1].year[1])

WellFormedStateLine(row) ==
    IsFiveColumns(row) /\ IsNumeral(row[3]) /\ IsNumeral(row[5])

\* The rows the well-formed 5-column lines of a state file stand for.
FiveColumnRows(rows) ==
    LET lines == SelectSeq(rows, WellFormedStateLine)
    IN  SeqToBag([i \in 1..Len(lines) |->
                    [state |-> lines[i][1], name |-> lines[i][4],
                     gender |-> lines[i][2],
                     count |-> NumeralValue[lines[i][5]],
                     year |-> NumeralValue[lines[i][3]]]])

\* C14: during the state load every line without exactly 5 columns is
\* dropped, with no stored row and no error, and every 5-column line of
\* the file is inserted as one ssa_names_by_state row.
C14_StateLinesOfFiveColumns ==
    LET m == LoadedMember("extract_and_load_states")
    IN  (m # None /\ last.raised # Some("StoreError"))
        => /\ last.raised = None
           /\ ssa_names_by_state = last.before.states
                  (+) FiveColumnRows(m[1].file.rows)

\* A line of the expected number of columns whose count or year is no
\* integer.
MalformedNationalLine(row) == IsThreeColumns(row) /\ ~IsNumeral(row[3])

MalformedStateLine(row) ==
    IsFiveColumns(row) /\ ~(IsNumeral(row[3]) /\ IsNumeral(row[5]))

\* C15: a row of the wrong shape, such as one whose count or year is no
\* integer, is not fatal: the row is skipped, the load goes on with the
\* remaining rows and files, and the run is aborted by schema and
\* connection errors only.
C15_MalformedRowSkipped ==
    LET n == LoadedMember("extract_and_load")
        s == LoadedMember("extract_and_load_states")
    IN  /\ (/\ n # None
            /\ HasFourDigits(n[1].file.name)
            /\ \E i \in 1..Len(n[1].file.rows) :
                  MalformedNationalLine(n[1].file.rows[i])
            /\ last.raised # Some("StoreError"))
           => /\ last.raised = None
              /\ pc = "extract_and_load"
              /\ conn
        /\ (/\ s # None
            /\ \E i \in 1..Len(s[1].file.rows) :
                  MalformedStateLine(s[1].file.rows[i])
            /\ last.raised # Some("StoreError"))
           => /\ last.raised = None
              /\ pc = "extract_and_load_states"
              /\ conn
              /\ ssa_names_by_state = last.before.states
                     (+) FiveColumnRows(s[1].file.rows)
        /\ pc = "raised" => last.raised # Some("ValueError")

\* C16: when a step of the run raises, no later step executes, the
\* session is closed before the error reaches the caller, and the rows the
\* completed inserts committed remain in the store; a run that succeeds
\* releases the session at its end.
C16_RunReleasesSession ==
    /\ last.raised # None => pc = "raised"
    /\ pc = "raised"
          => /\ last.raised # None
             /\ ~conn
             /\ open_sessions = 0
             /\ StoreAsBefore
             /\ ~ENABLED NextRun
    /\ (last.op \in {"extract_and_load", "extract_and_load_states"}
            /\ last.raised = None)
          => /\ ssa_names (+) ssa_names_by_state
                    = last.before.names (+) last.before.states (+) last.rows
    /\ last.op \notin {"create_backend", "init_database"}
          => /\ last.before.names \sqsubseteq ssa_names
             /\ last.before.states \sqsubseteq ssa_names_by_state
    /\ pc = "done"
          => /\ last.op = "close"
             /\ last.raised = None
             /\ last.before.conn
             /\ ~conn
             /\ open_sessions = 0

\* The state load raised after the national load had committed rows.
C16_Witness ==
    /\ pc = "raised"
    /\ last.op = "extract_and_load_states"
    /\ last.raised = Some("ValueError")
    /\ last.before.conn
    /\ \E r \in DOMAIN ssa_names : r.year = 1950

\* The steps of a run in the order run() writes them.
RunOrder ==
    <<"create_backend", "init_database", "open(names.zip)",
      "extract_and_load", "create_indexes(ssa_names)",
      "verify_data(ssa_names)", "open(namesbystate.zip)",
      "extract_and_load_states", "create_indexes(ssa_names_by_state)",
      "verify_data(ssa_names_by_state)", "close">>

StepOf(op) == CHOOSE i \in 1..Len(RunOrder) : RunOrder[i] = op

ValidRow(r) ==
    /\ r.gender \in {GenderM, GenderF}
    /\ r.count >= 0
    /\ r.year >= 1880

\* C22: after an ingestion run over any archive contents every row of
\* ssa_names and ssa_names_by_state has count >= 0, year >= 1880 and
\* gender M or F, so every stored row can be returned as a NameRecord or
\* NameByStateRecord.
C22_StoredRowsValid ==
    pc \in {"done", "raised"}
        => /\ \A r \in DOMAIN ssa_names : ValidRow(r)
           /\ \A r \in DOMAIN ssa_names_by_state : ValidRow(r)

\* ------------------------------------------------------------------
\* The store under repeated inserts
\* ------------------------------------------------------------------

\* table_row_count(table_name): SELECT COUNT(*) FROM the table.
table_row_count(T) == BagCardinality(T)

\* Batches of one record, which fit the table twice, and the batches of
\* two.
InsertNationalBatches ==
    {<<NationalRow(n, GenderF, 400, 1950)>> : n \in {Mary, John}}
    \cup NationalBatches

InsertStateBatches ==
    {<<[state |-> StateCA, name |-> Mary, gender |-> GenderF,
        count |-> 400, year |-> 1950]>>}
    \cup StateBatches

\* An engine that is connected and handed schema scripts and batches.
NextInsert ==
    \/ \E ok \in BOOLEAN : connect(ok)
    \/ \E sql_script \in Scripts : init_schema(sql_script)
    \/ \E records \in InsertNationalBatches :
           \E failing \in 0..Len(records) :
               CallInsertNamesBatch(records, failing)
    \/ \E records \in InsertStateBatches :
           \E failing \in 0..Len(records) :
               CallInsertStateNamesBatch(records, failing)

SpecInsert == InitEngine /\ [][NextInsert]_vars

\* A result list with every count doubled.
DoubledCounts(list) ==
    [i \in 1..Len(list) |-> [list[i] EXCEPT !.count = 2 * @]]

\* The call `op` returned, the call before it was `op` too and returned,
\* and the table held the rows of this call's batch and no other.
InsertedTwice(op, before) ==
    /\ last.op = op
    /\ last.raised = None
    /\ last.prev = <<op, None>>
    /\ last.rows # EmptyBag
    /\ before = last.rows

\* C23: the store enforces no uniqueness: the same batch inserted twice
\* without a new schema is accepted, every row is stored twice (the row
\* count doubles), and every summed aggregate of the names in it doubles:
\* the counts of get_name_trends, total_count of get_name_stats, the
\* counts of get_state_distribution.
C23_DuplicateBatchDoubles ==
    /\ InsertedTwice("insert_names_batch", last.before.names)
          => /\ ssa_names = last.rows (+) last.rows
             /\ table_row_count(ssa_names)
                    = 2 * table_row_count(last.before.names)
             /\ \A n \in QueryNames :
                   /\ \A g \in GenderArgs :
                         get_name_trends(backend, ssa_names, n, g)
                             = DoubledCounts(get_name_trends(
                                   backend, last.before.names, n, g))
                   /\ {IF st = None THEN 0 ELSE st[1].total_count :
                          st \in get_name_stats(backend, ssa_names, n)}
                      = {IF st = None THEN 0 ELSE 2 * st[1].total_count :
                          st \in get_name_stats(backend,
                                                last.before.names, n)}
    /\ InsertedTwice("insert_state_names_batch", last.before.states)
          => /\ ssa_names_by_state = last.rows (+) last.rows
             /\ table_row_count(ssa_names_by_state)
                    = 2 * table_row_count(last.before.states)
             /\ \A n \in QueryNames :
                   get_state_distribution(backend, ssa_names_by_state, n)
                       = {DoubledCounts(dist) :
                             dist \in get_state_distribution(
                                 backend, last.before.states, n)}

\* Both tables hold a batch twice: the state batch was just inserted a
\* second time, and Mary's 400 of 1950 is 800 in the trends.
C23_Witness ==
    /\ InsertedTwice("insert_state_names_batch", last.before.states)
    /\ \E r \in DOMAIN ssa_names_by_state : r.state = StateCA
    /\ ssa_names = SeqToBag(<<NationalRow(Mary, GenderF, 400, 1950),
                              NationalRow(Mary, GenderF, 400, 1950)>>)
    /\ get_name_trends(backend, ssa_names, Mary, None)
           = <<[year |-> 1950, count |-> 800]>>

\* ------------------------------------------------------------------
\* Claims about rankings and match keys
\* ------------------------------------------------------------------

\* The rows of year y, of either gender.
YearRows(y) ==
    [r \in {x \in DOMAIN ssa_names : x.year = y} |-> ssa_names[r]]

\* The rows of a bag whose count is above c, and not below c.
CountAbove(B, c) ==
    BagCardinality([r \in {x \in DOMAIN B : x.count > c} |-> B[r]])

CountAtLeast(B, c) ==
    BagCardinality([r \in {x \in DOMAIN B : x.count >= c} |-> B[r]])

\* C24: without a gender, get_top_names(y, K) ranks the rows of year y of
\* both genders in one ranking: it returns the K rows of the year with the
\* highest counts, whatever their gender, with ranks 1..K over that one
\* set.
C24_TopNamesOfBothGenders ==
    Queryable =>
        \A y \in QueryYears, K \in Limits :
            \A top \in get_top_names(backend, ssa_names, y, None, K) :
                /\ Len(top) = Min({K, BagCardinality(YearRows(y))})
                /\ \A i \in 1..Len(top) :
                       /\ top[i].rank = i
                       /\ CountAbove(YearRows(y), top[i].count) < i
                       /\ CountAtLeast(YearRows(y), top[i].count) >= i
                /\ SeqToBag([i \in 1..Len(top) |->
                       NationalRow(top[i].name, top[i].gender,
                                   top[i].count, y)])
                       \sqsubseteq YearRows(y)

\* A year of three rows of both genders; the first two hold ranks 1 and 2
\* and are not of one gender, the third is left out.
C24_Witness ==
    /\ Queryable
    /\ \E y \in QueryYears :
           /\ BagCardinality(YearRows(y)) = 3
           /\ \E top \in get_top_names(backend, ssa_names, y, None, 2) :
                  /\ Len(top) = 2
                  /\ top[1].gender # top[2].gender
                  /\ top[1].count > top[2].count
                  /\ top[2].rank = 2
                  /\ \E r \in DOMAIN YearRows(y) :
                         /\ r.gender = top[1].gender
                         /\ r.count < top[2].count

\* Name, state and prefix inputs, some with the characters % and _ .
KeyInputs == QueryNames \cup {<<"%">>, <<"M","_","r","y">>}
StateInputs == {None, Some(StateCA), Some(<<"C","_">>), Some(<<"%">>)}
PrefixInputs == Prefixes \cup {<<"%">>, <<"M","%","y">>}

\* C25: every name, state and prefix is a literal match key, also one
\* holding % or _ : a lookup matches only rows whose key is that string,
\* for search_names begins with it, letter case apart, and returns nothing
\* when there is no such row.
C25_LiteralMatchKeys ==
    Queryable =>
        /\ \A n \in KeyInputs :
               /\ \A r \in DOMAIN get_name_records(backend, ssa_names, n) :
                      Lower(r.name) = Lower(n)
               /\ \A st \in StateInputs :
                      \A r \in DOMAIN get_name_by_state(
                                   backend, ssa_names_by_state, n, st) :
                          /\ Lower(r.name) = Lower(n)
                          /\ st # None => Lower(r.state) = Lower(st[1])
        /\ \A p \in PrefixInputs, L \in Limits :
               \A res \in search_names(backend, ssa_names, p, L) :
                   \A i \in 1..Len(res) :
                       StartsWith(Lower(res[i].name), Lower(p))

\* ------------------------------------------------------------------
\* The frame of the engine's calls
\* ------------------------------------------------------------------

InsertCalls == {"insert_names_batch", "insert_state_names_batch"}

\* C26: no query, no verification read and no create_indexes call changes
\* the rows of ssa_names or ssa_names_by_state: rows are added by the two
\* insert calls only and removed by init_schema only.
C26_RowsFrame ==
    last.op # "__init__"
        => /\ last.op \notin InsertCalls
                 => /\ ssa_names \sqsubseteq last.before.names
                    /\ ssa_names_by_state \sqsubseteq last.before.states
           /\ last.op # "init_schema"
                 => /\ last.before.names \sqsubseteq ssa_names
                    /\ last.before.states \sqsubseteq ssa_names_by_state
           /\ last.op = "insert_names_batch"
                 => ssa_names_by_state = last.before.states
           /\ last.op = "insert_state_names_batch"
                 => ssa_names = last.before.names

============================================================================
